---- MODULE Spec2Model ----
(***************************************************************************)
(* Turkey-Weather-Forecast: the sharded acquisition pipeline.              *)
(*   data_collection/batch_01.py   the Shard Fetcher (one batch)           *)
(*   data_collection/merge_data.py the Shard Merger                        *)
(* FetchSpec models runs of the fetcher (started, interrupted, re-run)     *)
(* against one output directory and one persistent response cache.         *)
(* MergeSpec models one run of the merger over a directory of CSV files.   *)
(***************************************************************************)
EXTENDS Integers, Sequences, FiniteSets, TLC

VARIABLES
    \* ---- fetcher (batch_01.py) ----
    pc,                 \* position of the fetch script
    idx,                \* 1-based position of the for loop in df_batch
    exists,             \* os.path.exists, per shard file name
    size,               \* os.path.getsize, per shard file name
    cache,              \* locations whose response is in the .cache session
    wait_time_on_error, \* line 104
    exit_status,        \* << >> while the process has not exited, <<code>> after
    outcome,            \* per location of this run: none/skipped/succeeded/failed
    requested,          \* locations openmeteo.weather_api was called for this run
    netCalled,          \* locations a call reached the network for this run
    seen,               \* per location: the file as the loop found it this run
    removed,            \* locations whose file this run deleted (os.remove)
    lastFailure,        \* kind of the last failure on the current location
    hits,               \* waits taken since wait_time_on_error was last set to 60
    slept,              \* duration of the last rate-limit wait
    \* ---- merger (merge_data.py) ----
    m_pc,               \* position of merge main()
    directory,          \* the CSV files of INPUT_FOLDER (a set of file ids)
    csv_files,          \* glob result, in discovery order
    file_i,             \* 1-based position of the load loop in csv_files
    data_frames,        \* loaded frames, in load order
    success_count,      \* line 53
    warnings,           \* number of "Corrupt file detected" warnings printed
    master,             \* rows of OUTPUT_FILE (meaningful when master_exists)
    master_exists,      \* whether OUTPUT_FILE exists
    prior_master,       \* OUTPUT_FILE as it was before the merge run
    write_result,       \* none / written / denied: what to_csv did this run
    m_exit,             \* << >> while merge runs, <<code>> after it exited
    \* ---- two batches of the fetcher run side by side on one directory ----
    b_range,            \* per batch: its START_INDEX and END_INDEX
    b_pc,               \* per batch: position of the script
    b_idx,              \* per batch: 1-based position of the for loop
    b_exists,           \* os.path.exists, per shard file name (shared directory)
    b_size,             \* os.path.getsize, per shard file name (shared directory)
    b_touched,          \* per batch: the files it tested, deleted or wrote
    \* ---- the decoding of one response (batch_01.py, line 139) ----
    d_pc,               \* position of the apply over the weather_code column
    weather_code,       \* the column of raw codes of the response
    weather_desc,       \* the descriptions computed so far
    d_outcome           \* none / succeeded / failed: what the loop makes of it

fetchVars == <<pc, idx, exists, size, cache, wait_time_on_error, exit_status,
               outcome, requested, netCalled, seen, removed, lastFailure, hits,
               slept>>
mergeVars == <<m_pc, directory, csv_files, file_i, data_frames, success_count,
               warnings, master, master_exists, prior_master, write_result, m_exit>>
batchVars == <<b_range, b_pc, b_idx, b_exists, b_size, b_touched>>
decodeVars == <<d_pc, weather_code, weather_desc, d_outcome>>
vars == <<fetchVars, mergeVars, batchVars, decodeVars>>

----------------------------------------------------------------------------
(* Bounds of the model *)

\* number of rows of locations.csv
RegistrySize == 2
\* rate-limit waits explored per location (the code's loop is unbounded)
MaxRateLimitHits == 3

(* Program constants *)

START_INDEX == 0
END_INDEX == 27
BASE_WAIT == 60
SIZE_THRESHOLD == 1000

----------------------------------------------------------------------------
(* The registry and the shard file names *)

CityNames == <<"Adana", "Adiyaman", "Afyonkarahisar", "Agri", "Amasya", "Ankara">>

\* df_all: the rows of locations.csv (plaka, city_name)
df_all == [i \in 1..RegistrySize |-> [plaka |-> i, city_name |-> CityNames[i]]]

\* df_all.iloc[START_INDEX:END_INDEX]: the 1-based row numbers of the slice
\* (a Python slice is clamped to the length of the frame)
Min(a, b) == IF a < b THEN a ELSE b
df_batch ==
    [k \in 1..(IF Min(END_INDEX, RegistrySize) > START_INDEX
               THEN Min(END_INDEX, RegistrySize) - START_INDEX ELSE 0)
        |-> START_INDEX + k]

Locations == 1..RegistrySize

\* the slice taken with the END_INDEX row included
iloc_slice_inclusive(start, stop) ==
    [k \in 1..(IF Min(stop + 1, RegistrySize) > start
               THEN Min(stop + 1, RegistrySize) - start ELSE 0)
        |-> start + k]

\* df_all.iloc[start:stop] for any start and stop: the 1-based row numbers
iloc_slice(start, stop) ==
    [k \in 1..(IF Min(stop, RegistrySize) > start
               THEN Min(stop, RegistrySize) - start ELSE 0)
        |-> start + k]

\* str(plate_code).zfill(2), digits as a sequence
zfill2(n) == IF n < 10 THEN <<0, n>> ELSE <<n \div 10, n % 10>>

\* f"{str(plate_code).zfill(2)}_{city_name}.csv"
file_name(row) == <<zfill2(row.plaka), row.city_name>>

file_path(l) == file_name(df_all[l])

FileNames == {file_path(l) : l \in Locations}

\* sizes a shard file passes through while to_csv writes it; the last one is
\* the size of a complete shard (8401 daily rows, far above the threshold)
FullSize == SIZE_THRESHOLD + 2
Sizes == {0, SIZE_THRESHOLD, SIZE_THRESHOLD + 1, FullSize}

----------------------------------------------------------------------------
(* Failures raised inside the try block, and how the handler reads them *)

\* kind is what happened; limitText and has429 say whether str(e) contains
\* "limit exceeded" and "429".  The archive API answers HTTP 429 with a reason
\* "... API request limit exceeded ...".  Other failures carry the request URL
\* (with the coordinates) or other numbers in their text, so "429" may occur.
Errors ==
    {[kind |-> "RateLimited", limitText |-> TRUE, has429 |-> FALSE],
     [kind |-> "PermanentError", limitText |-> FALSE, has429 |-> FALSE],
     [kind |-> "PermanentError", limitText |-> FALSE, has429 |-> TRUE],
     [kind |-> "Unexpected", limitText |-> FALSE, has429 |-> FALSE],
     [kind |-> "Unexpected", limitText |-> FALSE, has429 |-> TRUE]}

\* if "limit exceeded" in str(e) or "429" in str(e)
IsRateLimitText(e) == e.limitText \/ e.has429

\* the size test off by one: a file of 1001 bytes is not taken as complete
IsCompleteOffByOne(f) == exists[f] /\ size[f] > SIZE_THRESHOLD + 1

\* os.path.getsize(file_path) > 1000, after os.path.exists(file_path)
IsComplete(f) == exists[f] /\ size[f] > SIZE_THRESHOLD

\* wait_time_on_error = 60, at the top of each location's retry loop
InitialWait(previous) == BASE_WAIT

\* the wait grows by the base wait instead of doubling
NextWaitLinear(w) == w + BASE_WAIT

\* wait_time_on_error *= 2
NextWait(w) == w * 2

----------------------------------------------------------------------------
(* The fetcher *)

Running == pc \in {"loop", "remove", "request", "sleeping", "write", "writing"}

Cur == df_batch[idx]

NewRun ==
    /\ outcome' = [l \in Locations |-> "none"]
    /\ requested' = {}
    /\ netCalled' = {}
    /\ seen' = [l \in Locations |-> [reached |-> FALSE, exists |-> FALSE, size |-> 0]]
    /\ removed' = {}
    /\ lastFailure' = "none"
    /\ hits' = 0
    /\ slept' = 0
    /\ idx' = 1
    /\ wait_time_on_error' = BASE_WAIT

\* line 67: CachedSession('.cache') opens the cache database of earlier runs,
\* or creates an empty one when the working directory holds none
OpenCache(kept) == IF kept THEN cache ELSE {}

\* lines 60-84 with the registry present: the batch is sliced and the loop starts
StartRun(cacheKept) ==
    /\ ~Running
    /\ NewRun
    /\ cache' = OpenCache(cacheKept)
    /\ pc' = "loop"
    /\ exit_status' = << >>
    /\ UNCHANGED <<exists, size>>
    /\ UNCHANGED <<mergeVars, batchVars, decodeVars>>

\* lines 60-82 with locations.csv missing: FileNotFoundError, print, exit()
StartMissingRegistry(cacheKept) ==
    /\ ~Running
    /\ NewRun
    /\ cache' = OpenCache(cacheKept)
    /\ pc' = "exited"
    /\ exit_status' = <<0>>
    /\ UNCHANGED <<exists, size>>
    /\ UNCHANGED <<mergeVars, batchVars, decodeVars>>

\* the for loop is exhausted: line 158, and the script ends
LoopDone ==
    /\ pc = "loop"
    /\ idx > Len(df_batch)
    /\ pc' = "done"
    /\ exit_status' = <<0>>
    /\ UNCHANGED <<idx, exists, size, cache, wait_time_on_error, outcome, requested,
                   netCalled, seen, removed, lastFailure, hits, slept>>
    /\ UNCHANGED <<mergeVars, batchVars, decodeVars>>

Observe(l) ==
    seen' = [seen EXCEPT ![l] = [reached |-> TRUE, exists |-> exists[file_path(l)],
                                 size |-> size[file_path(l)]]]

\* lines 96-99: the file exists and is large: skip, continue
SkipExisting ==
    /\ pc = "loop"
    /\ idx <= Len(df_batch)
    /\ IsComplete(file_path(Cur))
    /\ lastFailure' = "none"
    /\ Observe(Cur)
    /\ outcome' = [outcome EXCEPT ![Cur] = "skipped"]
    /\ idx' = idx + 1
    /\ UNCHANGED <<pc, exists, size, cache, wait_time_on_error, exit_status, requested,
                   netCalled, removed, hits, slept>>
    /\ UNCHANGED <<mergeVars, batchVars, decodeVars>>

\* lines 96-101: the file exists and is not large: it is to be removed
FoundCorrupt ==
    /\ pc = "loop"
    /\ idx <= Len(df_batch)
    /\ exists[file_path(Cur)]
    /\ ~IsComplete(file_path(Cur))
    /\ lastFailure' = "none"
    /\ Observe(Cur)
    /\ pc' = "remove"
    /\ UNCHANGED <<idx, exists, size, cache, wait_time_on_error, exit_status, outcome,
                   requested, netCalled, removed, hits, slept>>
    /\ UNCHANGED <<mergeVars, batchVars, decodeVars>>

\* the corrupt file is left in place and the fetch goes ahead
RemoveForgotten ==
    /\ pc = "remove"
    /\ wait_time_on_error' = InitialWait(wait_time_on_error)
    /\ lastFailure' = "none"
    /\ hits' = 0
    /\ pc' = "request"
    /\ UNCHANGED <<idx, exists, size, removed, cache, exit_status, outcome, requested,
                   netCalled, seen, slept>>
    /\ UNCHANGED <<mergeVars, batchVars, decodeVars>>

\* line 101, then line 104
Remove ==
    /\ pc = "remove"
    /\ exists' = [exists EXCEPT ![file_path(Cur)] = FALSE]
    /\ size' = [size EXCEPT ![file_path(Cur)] = 0]
    /\ removed' = removed \cup {Cur}
    /\ wait_time_on_error' = InitialWait(wait_time_on_error)
    /\ lastFailure' = "none"
    /\ hits' = 0
    /\ pc' = "request"
    /\ UNCHANGED <<idx, cache, exit_status, outcome, requested, netCalled, seen, slept>>
    /\ UNCHANGED <<mergeVars, batchVars, decodeVars>>

\* line 96 is false: no file; line 104
FoundAbsent ==
    /\ pc = "loop"
    /\ idx <= Len(df_batch)
    /\ ~exists[file_path(Cur)]
    /\ Observe(Cur)
    /\ wait_time_on_error' = InitialWait(wait_time_on_error)
    /\ lastFailure' = "none"
    /\ hits' = 0
    /\ pc' = "request"
    /\ UNCHANGED <<idx, exists, size, cache, exit_status, outcome, requested, netCalled,
                   removed, slept>>
    /\ UNCHANGED <<mergeVars, batchVars, decodeVars>>

\* lines 148-156: the except handler, for a failure e on location l
Handle(e, l) ==
    /\ lastFailure' = e.kind
    /\ IF IsRateLimitText(e)
       THEN /\ hits < MaxRateLimitHits
            /\ slept' = wait_time_on_error
            /\ wait_time_on_error' = NextWait(wait_time_on_error)
            /\ hits' = hits + 1
            /\ pc' = "request"
            /\ UNCHANGED <<idx, outcome>>
       ELSE /\ outcome' = [outcome EXCEPT ![l] = "failed"]
            /\ idx' = idx + 1
            /\ pc' = "loop"
            /\ UNCHANGED <<slept, wait_time_on_error, hits>>

\* line 119, the response is in the cache: no network call
FetchCached ==
    /\ pc = "request"
    /\ Cur \in cache
    /\ requested' = requested \cup {Cur}
    /\ pc' = "write"
    /\ UNCHANGED <<idx, exists, size, cache, wait_time_on_error, exit_status, outcome,
                   netCalled, seen, removed, lastFailure, hits, slept>>
    /\ UNCHANGED <<mergeVars, batchVars, decodeVars>>

\* line 119, the network call succeeds: the response is cached
FetchOk ==
    /\ pc = "request"
    /\ Cur \notin cache
    /\ requested' = requested \cup {Cur}
    /\ netCalled' = netCalled \cup {Cur}
    /\ cache' = cache \cup {Cur}
    /\ pc' = "write"
    /\ UNCHANGED <<idx, exists, size, wait_time_on_error, exit_status, outcome, seen,
                   removed, lastFailure, hits, slept>>
    /\ UNCHANGED <<mergeVars, batchVars, decodeVars>>

\* line 119, the network call fails with e
FetchError(e) ==
    /\ pc = "request"
    /\ Cur \notin cache
    /\ requested' = requested \cup {Cur}
    /\ netCalled' = netCalled \cup {Cur}
    /\ Handle(e, Cur)
    /\ UNCHANGED <<exists, size, cache, exit_status, seen, removed>>
    /\ UNCHANGED <<mergeVars, batchVars, decodeVars>>

\* line 140: to_csv opens file_path for writing (created or truncated)
WriteOpen ==
    /\ pc = "write"
    /\ exists' = [exists EXCEPT ![file_path(Cur)] = TRUE]
    /\ size' = [size EXCEPT ![file_path(Cur)] = 0]
    /\ pc' = "writing"
    /\ UNCHANGED <<idx, cache, wait_time_on_error, exit_status, outcome, requested,
                   netCalled, seen, removed, lastFailure, hits, slept>>
    /\ UNCHANGED <<mergeVars, batchVars, decodeVars>>

\* line 140: to_csv writes on, in place
WriteChunk(s) ==
    /\ pc = "writing"
    /\ s > size[file_path(Cur)]
    /\ size' = [size EXCEPT ![file_path(Cur)] = s]
    /\ UNCHANGED <<pc, idx, exists, cache, wait_time_on_error, exit_status, outcome,
                   requested, netCalled, seen, removed, lastFailure, hits, slept>>
    /\ UNCHANGED <<mergeVars, batchVars, decodeVars>>

\* lines 140-146: the file is complete and closed; SUCCESS, sleep, break
WriteClose ==
    /\ pc = "writing"
    /\ size[file_path(Cur)] = FullSize
    /\ outcome' = [outcome EXCEPT ![Cur] = "succeeded"]
    /\ idx' = idx + 1
    /\ pc' = "loop"
    /\ UNCHANGED <<exists, size, cache, wait_time_on_error, exit_status, requested,
                   netCalled, seen, removed, lastFailure, hits, slept>>
    /\ UNCHANGED <<mergeVars, batchVars, decodeVars>>

\* line 140 raises (disk full, I/O error): the partial file stays
WriteError(e) ==
    /\ pc = "writing"
    /\ size[file_path(Cur)] < FullSize
    /\ e.kind = "Unexpected"
    /\ Handle(e, Cur)
    /\ UNCHANGED <<exists, size, cache, exit_status, requested, netCalled, seen, removed>>
    /\ UNCHANGED <<mergeVars, batchVars, decodeVars>>

\* the process is stopped (KeyboardInterrupt is no Exception; or it is killed)
Interrupt ==
    /\ Running
    /\ pc' = "interrupted"
    /\ UNCHANGED <<idx, exists, size, cache, wait_time_on_error, exit_status, outcome,
                   requested, netCalled, seen, removed, lastFailure, hits, slept>>
    /\ UNCHANGED <<mergeVars, batchVars, decodeVars>>

\* the state before the first run of the fetcher; the merger is not run
FetchInit ==
    /\ pc = "idle"
    /\ idx = 1
    /\ exists = [f \in FileNames |-> FALSE]
    /\ size = [f \in FileNames |-> 0]
    /\ cache = {}
    /\ wait_time_on_error = BASE_WAIT
    /\ exit_status = << >>
    /\ outcome = [l \in Locations |-> "none"]
    /\ requested = {}
    /\ netCalled = {}
    /\ seen = [l \in Locations |-> [reached |-> FALSE, exists |-> FALSE, size |-> 0]]
    /\ removed = {}
    /\ lastFailure = "none"
    /\ hits = 0
    /\ slept = 0
    /\ m_pc = "idle"
    /\ directory = {}
    /\ csv_files = << >>
    /\ file_i = 1
    /\ data_frames = << >>
    /\ success_count = 0
    /\ warnings = 0
    /\ master = << >>
    /\ master_exists = FALSE
    /\ prior_master = [exists |-> FALSE, rows |-> << >>]
    /\ write_result = "none"
    /\ m_exit = << >>
    /\ b_range = [b \in {1, 2} |-> [start |-> 0, stop |-> 0]]
    /\ b_pc = [b \in {1, 2} |-> "idle"]
    /\ b_idx = [b \in {1, 2} |-> 1]
    /\ b_exists = [f \in FileNames |-> FALSE]
    /\ b_size = [f \in FileNames |-> 0]
    /\ b_touched = [b \in {1, 2} |-> {}]
    /\ d_pc = "idle"
    /\ weather_code = << >>
    /\ weather_desc = << >>
    /\ d_outcome = "none"

FetchNext ==
    \/ \E cacheKept \in BOOLEAN : StartRun(cacheKept)
    \/ \E cacheKept \in BOOLEAN : StartMissingRegistry(cacheKept)
    \/ LoopDone
    \/ SkipExisting
    \/ FoundCorrupt
    \/ Remove
    \/ FoundAbsent
    \/ FetchCached
    \/ FetchOk
    \/ \E e \in Errors : FetchError(e)
    \/ WriteOpen
    \/ \E s \in Sizes : WriteChunk(s)
    \/ WriteClose
    \/ \E e \in Errors : WriteError(e)
    \/ Interrupt

FetchSpec == FetchInit /\ [][FetchNext]_vars


----------------------------------------------------------------------------
(* The merger: the CSV files of INPUT_FOLDER *)

\* at most this many CSV files in INPUT_FOLDER
MaxShardFiles == 3

\* dates as the shard files hold them: year, month, day
DateA == <<2003, 12, 31>>
DateB == <<2004, 1, 1>>
DateC == <<2004, 1, 2>>

\* a cell that holds no value (NaN in a frame, an empty field in a file)
Missing == << >>

\* The files INPUT_FOLDER is drawn from: shards as the fetcher writes them (a
\* date column, one plate_code, rows in date order), a second file for the
\* same plate_code, an empty file (read_csv raises EmptyDataError) and a CSV
\* file without a date column.
CsvPool ==
    <<[parses |-> TRUE, has_date |-> TRUE,
       rows |-> <<[plate_code |-> 1, date |-> DateA], [plate_code |-> 1, date |-> DateC]>>],
      [parses |-> TRUE, has_date |-> TRUE,
       rows |-> <<[plate_code |-> 2, date |-> DateA], [plate_code |-> 2, date |-> DateB]>>],
      [parses |-> TRUE, has_date |-> TRUE,
       rows |-> <<[plate_code |-> 1, date |-> DateB]>>],
      [parses |-> FALSE, has_date |-> FALSE, rows |-> << >>],
      [parses |-> TRUE, has_date |-> FALSE,
       rows |-> <<[plate_code |-> 2, date |-> Missing], [plate_code |-> 1, date |-> Missing]>>]>>

FileIds == 1..Len(CsvPool)

\* the master file of an earlier merge run
OldMaster == <<[plate_code |-> 1, date |-> DateA]>>

\* glob.glob: the files of the directory, in any order
GlobOrders(dir) ==
    {o \in [1..Cardinality(dir) -> dir] :
        \A i, j \in 1..Cardinality(dir) : i # j => o[i] # o[j]}

\* pd.to_datetime of one cell: a day number, or NaT for a missing cell
to_datetime(d) ==
    IF d = Missing THEN [nat |-> TRUE, day |-> 0]
    ELSE [nat |-> FALSE, day |-> (d[1] * 12 + (d[2] - 1)) * 31 + (d[3] - 1)]

\* to_csv of one datetime cell: the date written out again, NaT as an empty field
format_date(t) ==
    IF t.nat THEN Missing
    ELSE <<t.day \div 372, ((t.day \div 31) % 12) + 1, (t.day % 31) + 1>>

\* pd.concat(data_frames, ignore_index=True): the rows of the frames in load order
RECURSIVE concat(_)
concat(frames) ==
    IF frames = << >> THEN << >>
    ELSE CsvPool[Head(frames)].rows \o concat(Tail(frames))

\* 'date' in master_df.columns: the columns are the union of the frames' columns
HasDateColumn(frames) == \E i \in 1..Len(frames) : CsvPool[frames[i]].has_date

\* the order of sort_values(by=['plate_code', 'date']): plate_code first, then
\* date, NaT after every date (na_position='last')
RowBeforeDateFirst(a, b) ==
    \/ (~a.date.nat /\ b.date.nat)
    \/ (~a.date.nat /\ ~b.date.nat /\ a.date.day < b.date.day)
    \/ (a.date = b.date /\ a.plate_code < b.plate_code)

RowBefore(a, b) ==
    \/ a.plate_code < b.plate_code
    \/ /\ a.plate_code = b.plate_code
       /\ \/ (~a.date.nat /\ b.date.nat)
          \/ (~a.date.nat /\ ~b.date.nat /\ a.date.day < b.date.day)

\* insertion of row r into the sorted sequence s, after the rows not after it
RECURSIVE insert_row(_, _)
insert_row(r, s) ==
    IF s = << >> THEN <<r>>
    ELSE IF RowBefore(r, Head(s)) THEN <<r>> \o s
    ELSE <<Head(s)>> \o insert_row(r, Tail(s))

\* master_df.sort_values(by=['plate_code', 'date'])
RECURSIVE sort_values(_)
sort_values(rows) ==
    IF rows = << >> THEN << >>
    ELSE insert_row(rows[Len(rows)], sort_values(SubSeq(rows, 1, Len(rows) - 1)))

\* lines 79-87: concat, then, with a date column, to_datetime and sort_values
Transform(frames) ==
    LET raw == concat(frames)
        typed == [i \in 1..Len(raw) |->
                    [plate_code |-> raw[i].plate_code, date |-> to_datetime(raw[i].date)]]
    IN IF HasDateColumn(frames)
       THEN LET sorted == sort_values(typed)
            IN [i \in 1..Len(sorted) |->
                  [plate_code |-> sorted[i].plate_code, date |-> format_date(sorted[i].date)]]
       ELSE raw

----------------------------------------------------------------------------
(* The merger: main() *)

\* lines 42-47: glob finds no CSV file: sys.exit(1)
NoCsvFilesReturns ==
    /\ m_pc = "start"
    /\ directory = {}
    /\ m_pc' = "exited"
    /\ m_exit' = <<0>>
    /\ UNCHANGED <<directory, csv_files, file_i, data_frames, success_count, warnings,
                   master, master_exists, prior_master, write_result>>
    /\ UNCHANGED <<fetchVars, batchVars, decodeVars>>

NoCsvFiles ==
    /\ m_pc = "start"
    /\ directory = {}
    /\ m_pc' = "exited"
    /\ m_exit' = <<1>>
    /\ UNCHANGED <<directory, csv_files, file_i, data_frames, success_count, warnings,
                   master, master_exists, prior_master, write_result>>
    /\ UNCHANGED <<fetchVars, batchVars, decodeVars>>

\* lines 42-53: glob finds the files, in the order o
Discover(o) ==
    /\ m_pc = "start"
    /\ directory # {}
    /\ csv_files' = o
    /\ data_frames' = << >>
    /\ success_count' = 0
    /\ file_i' = 1
    /\ m_pc' = "load"
    /\ UNCHANGED <<directory, warnings, master, master_exists, prior_master,
                   write_result, m_exit>>
    /\ UNCHANGED <<fetchVars, batchVars, decodeVars>>

\* lines 55-60: read_csv succeeds
LoadFile ==
    /\ m_pc = "load"
    /\ file_i <= Len(csv_files)
    /\ CsvPool[csv_files[file_i]].parses
    /\ data_frames' = Append(data_frames, csv_files[file_i])
    /\ success_count' = success_count + 1
    /\ file_i' = file_i + 1
    /\ UNCHANGED <<m_pc, directory, csv_files, warnings, master, master_exists,
                   prior_master, write_result, m_exit>>
    /\ UNCHANGED <<fetchVars, batchVars, decodeVars>>

\* a file that fails to parse ends the run
LoadCorruptAborts ==
    /\ m_pc = "load"
    /\ file_i <= Len(csv_files)
    /\ ~CsvPool[csv_files[file_i]].parses
    /\ m_pc' = "exited"
    /\ m_exit' = <<1>>
    /\ UNCHANGED <<directory, csv_files, file_i, data_frames, success_count, warnings,
                   master, master_exists, prior_master, write_result>>
    /\ UNCHANGED <<fetchVars, batchVars, decodeVars>>

\* lines 58, 65-67: read_csv raises: a warning, and the loop goes on
LoadCorrupt ==
    /\ m_pc = "load"
    /\ file_i <= Len(csv_files)
    /\ ~CsvPool[csv_files[file_i]].parses
    /\ warnings' = warnings + 1
    /\ file_i' = file_i + 1
    /\ UNCHANGED <<m_pc, directory, csv_files, data_frames, success_count, master,
                   master_exists, prior_master, write_result, m_exit>>
    /\ UNCHANGED <<fetchVars, batchVars, decodeVars>>

\* lines 74-76: no frame was loaded: print, return (main ends, exit status 0)
NoValidFrames ==
    /\ m_pc = "load"
    /\ file_i > Len(csv_files)
    /\ data_frames = << >>
    /\ m_pc' = "exited"
    /\ m_exit' = <<0>>
    /\ UNCHANGED <<directory, csv_files, file_i, data_frames, success_count, warnings,
                   master, master_exists, prior_master, write_result>>
    /\ UNCHANGED <<fetchVars, batchVars, decodeVars>>

\* lines 79-95: transform, then to_csv replaces OUTPUT_FILE; main ends
Export ==
    /\ m_pc = "load"
    /\ file_i > Len(csv_files)
    /\ data_frames # << >>
    /\ master' = Transform(data_frames)
    /\ master_exists' = TRUE
    /\ write_result' = "written"
    /\ m_pc' = "exited"
    /\ m_exit' = <<0>>
    /\ UNCHANGED <<directory, csv_files, file_i, data_frames, success_count, warnings,
                   prior_master>>
    /\ UNCHANGED <<fetchVars, batchVars, decodeVars>>

\* lines 79-97: to_csv raises PermissionError: print, main ends (exit status 0)
ExportDenied ==
    /\ m_pc = "load"
    /\ file_i > Len(csv_files)
    /\ data_frames # << >>
    /\ write_result' = "denied"
    /\ m_pc' = "exited"
    /\ m_exit' = <<0>>
    /\ UNCHANGED <<directory, csv_files, file_i, data_frames, success_count, warnings,
                   master, master_exists, prior_master>>
    /\ UNCHANGED <<fetchVars, batchVars, decodeVars>>

\* the state at the start of main(); the fetcher is not run
MergeInit ==
    /\ pc = "idle"
    /\ idx = 1
    /\ exists = [f \in FileNames |-> FALSE]
    /\ size = [f \in FileNames |-> 0]
    /\ cache = {}
    /\ wait_time_on_error = BASE_WAIT
    /\ exit_status = << >>
    /\ outcome = [l \in Locations |-> "none"]
    /\ requested = {}
    /\ netCalled = {}
    /\ seen = [l \in Locations |-> [reached |-> FALSE, exists |-> FALSE, size |-> 0]]
    /\ removed = {}
    /\ lastFailure = "none"
    /\ hits = 0
    /\ slept = 0
    /\ m_pc = "start"
    /\ directory \in {d \in SUBSET FileIds : Cardinality(d) <= MaxShardFiles}
    /\ csv_files = << >>
    /\ file_i = 1
    /\ data_frames = << >>
    /\ success_count = 0
    /\ warnings = 0
    /\ master_exists \in BOOLEAN
    /\ master = IF master_exists THEN OldMaster ELSE << >>
    /\ prior_master = [exists |-> master_exists, rows |-> master]
    /\ write_result = "none"
    /\ m_exit = << >>
    /\ b_range = [b \in {1, 2} |-> [start |-> 0, stop |-> 0]]
    /\ b_pc = [b \in {1, 2} |-> "idle"]
    /\ b_idx = [b \in {1, 2} |-> 1]
    /\ b_exists = [f \in FileNames |-> FALSE]
    /\ b_size = [f \in FileNames |-> 0]
    /\ b_touched = [b \in {1, 2} |-> {}]
    /\ d_pc = "idle"
    /\ weather_code = << >>
    /\ weather_desc = << >>
    /\ d_outcome = "none"

MergeNext ==
    \/ NoCsvFiles
    \/ \E o \in GlobOrders(directory) : Discover(o)
    \/ LoadFile
    \/ LoadCorrupt
    \/ NoValidFrames
    \/ Export
    \/ ExportDenied

MergeSpec == MergeInit /\ [][MergeNext]_vars

----------------------------------------------------------------------------
(* Properties of the fetcher, checked under FetchSpec *)

RECURSIVE Pow2(_)
Pow2(n) == IF n = 0 THEN 1 ELSE 2 * Pow2(n - 1)

Batch == {df_batch[k] : k \in 1..Len(df_batch)}

\* the loop found the shard file of l present, with a size satisfying P
FoundLarge(l) == seen[l].reached /\ seen[l].exists /\ seen[l].size > SIZE_THRESHOLD
FoundAtThreshold(l) == seen[l].reached /\ seen[l].exists /\ seen[l].size >= SIZE_THRESHOLD
FoundBelow(l) == seen[l].reached /\ seen[l].exists /\ seen[l].size < SIZE_THRESHOLD

\* C1 as stated: a location whose shard file exists with a size at or above
\* the threshold (1000 bytes) when the loop reaches it gets no network call
\* in this run.
C1_Original_SkipAtOrAboveThreshold ==
    \A l \in Locations : FoundAtThreshold(l) => l \notin netCalled

\* C1 amended: a location whose shard file exists with a size strictly above
\* the threshold (more than 1000 bytes) when the loop reaches it is skipped:
\* no call of the fetch client and no network call is made for it in this
\* run, whatever the other locations' files are.
C1_SkipAboveThreshold ==
    \A l \in Locations :
        FoundLarge(l) =>
            /\ l \notin netCalled
            /\ l \notin requested
            /\ outcome[l] = "skipped"
            /\ l \notin removed

\* a finished re-run that skipped one location and went to the network for another
C1_Witness ==
    /\ pc = "done"
    /\ \E l, m \in Locations :
        /\ FoundLarge(l) /\ outcome[l] = "skipped"
        /\ m \in netCalled /\ ~seen[m].exists

\* C2 as stated: a location whose shard file exists below the threshold when
\* the loop reaches it has the file deleted before any request for it, and
\* once the loop is through with it at least one network request was made.
C2_Original_DeleteThenNetworkFetch ==
    \A l \in Locations :
        FoundBelow(l) =>
            /\ l \in requested => l \in removed
            /\ outcome[l] # "none" => l \in netCalled

\* C2 amended: a location whose shard file exists below the threshold when
\* the loop reaches it has the file deleted before any request for it, and
\* once the loop is through with it the fetch client was called for it at
\* least once; the call reaches the network unless the response cache holds
\* the location's response.
C2_DeleteThenRefetch ==
    \A l \in Locations :
        FoundBelow(l) =>
            /\ l \in requested => l \in removed
            /\ (pc = "request" /\ Cur = l /\ l \notin requested) => ~exists[file_path(l)]
            /\ outcome[l] # "none" => l \in requested
            /\ (l \in requested /\ l \notin netCalled) => l \in cache
            /\ outcome[l] # "skipped"

\* a small leftover file was deleted and its location fetched again, with success
C2_Witness ==
    \E l \in Locations :
        /\ FoundBelow(l)
        /\ l \in removed
        /\ l \in requested
        /\ outcome[l] = "succeeded"
        /\ size[file_path(l)] = FullSize

\* C3: a failure other than RateLimited on a location marks it failed, no
\* further request is made for it (the loop is at a later position of the
\* batch), and a finished run has attempted every location of the batch.
C3_OtherFailureMovesOn ==
    /\ lastFailure \in {"PermanentError", "Unexpected"} =>
           /\ pc \in {"loop", "done", "interrupted"}
           /\ idx > 1
           /\ outcome[df_batch[idx - 1]] = "failed"
    /\ pc = "done" => \A l \in Batch : outcome[l] # "none"

\* C4: the k-th rate-limit wait of a location lasts 60 * 2^(k-1): the wait
\* variable is 60 when a location's retry loop starts, whatever the previous
\* location left, and doubles at each wait.
C4_WaitDoubles ==
    /\ wait_time_on_error = BASE_WAIT * Pow2(hits)
    /\ hits > 0 => slept = BASE_WAIT * Pow2(hits - 1)
    /\ (pc = "request" /\ Cur \notin requested) => hits = 0

\* the second location of a run waits for the second time after two
\* RateLimited answers, the first location having waited too
C4_Witness ==
    /\ pc = "request"
    /\ idx = 2
    /\ outcome[df_batch[1]] = "failed"
    /\ df_batch[1] \in netCalled
    /\ hits = 2
    /\ lastFailure = "RateLimited"
    /\ slept = 2 * BASE_WAIT

\* the loop has reached l and is not through with it
InProgress(l) == seen[l].reached /\ outcome[l] = "none"

\* C9: an interrupted run leaves the in-progress location's shard file absent
\* or of a size a re-run does not take as complete (or fully written), and a
\* re-run never skips a location whose shard file is incomplete.
C9_InterruptedShardNeverSkipped ==
    /\ pc = "interrupted" =>
           \A l \in Locations :
               (InProgress(l) /\ exists[file_path(l)]) =>
                   \/ size[file_path(l)] <= SIZE_THRESHOLD
                   \/ size[file_path(l)] = FullSize
    /\ \A l \in Locations :
           outcome[l] = "skipped" => size[file_path(l)] = FullSize

\* C10: with locations.csv missing the run makes no request, writes no shard
\* file and exits with a non-zero status.
C10_MissingRegistryFatal ==
    pc = "exited" =>
        /\ requested = {}
        /\ netCalled = {}
        /\ \A l \in Locations : outcome[l] = "none"
        /\ exit_status # << >>
        /\ exit_status[1] # 0

----------------------------------------------------------------------------
(* Properties of the merger, checked under MergeSpec *)

\* the files of the directory that read_csv can load
Parseable == {f \in directory : CsvPool[f].parses}

RECURSIVE RowCount(_)
RowCount(files) ==
    IF files = {} THEN 0
    ELSE LET f == CHOOSE x \in files : TRUE
         IN Len(CsvPool[f].rows) + RowCount(files \ {f})

Occurrences(rows, r) == Cardinality({i \in 1..Len(rows) : rows[i] = r})

RECURSIVE OccurrencesIn(_, _)
OccurrencesIn(files, r) ==
    IF files = {} THEN 0
    ELSE LET f == CHOOSE x \in files : TRUE
         IN Occurrences(CsvPool[f].rows, r) + OccurrencesIn(files \ {f}, r)

AllRows == UNION {{CsvPool[f].rows[i] : i \in 1..Len(CsvPool[f].rows)} : f \in FileIds}

\* calendar order of two dates as the files hold them
DateLE(a, b) ==
    \/ a[1] < b[1]
    \/ a[1] = b[1] /\ a[2] < b[2]
    \/ a[1] = b[1] /\ a[2] = b[2] /\ a[3] <= b[3]

\* (location, date) <= (location, date), lexicographically
KeyLE(a, b) ==
    \/ a.plate_code < b.plate_code
    \/ a.plate_code = b.plate_code /\ DateLE(a.date, b.date)

\* C5: the master dataset a merge run writes from shard files (files with a
\* date column) is sorted by (plate_code, date): every adjacent pair of rows
\* is in lexicographic order, whatever the files and their discovery order.
C5_MasterSorted ==
    (/\ write_result = "written"
     /\ \A f \in Parseable : CsvPool[f].has_date) =>
        \A i \in 1..(Len(master) - 1) : KeyLE(master[i], master[i + 1])

\* a master of at least four rows was written from shards whose
\* concatenation was out of order, in plate_code and in date
C5_Witness ==
    /\ write_result = "written"
    /\ \A f \in Parseable : CsvPool[f].has_date
    /\ Len(master) >= 4
    /\ LET raw == concat(data_frames)
       IN /\ \E i \in 1..(Len(raw) - 1) : raw[i].plate_code > raw[i + 1].plate_code
          /\ \E i \in 1..(Len(raw) - 1) :
                /\ raw[i].plate_code = raw[i + 1].plate_code
                /\ ~DateLE(raw[i].date, raw[i + 1].date)

\* C6: with no CSV file in the shard directory the merge run exits with a
\* non-zero status and writes no master file: a master file of an earlier run
\* is as it was, and none is created.
C6_EmptyDirectoryFails ==
    (m_pc = "exited" /\ directory = {}) =>
        /\ m_exit = <<1>>
        /\ write_result = "none"
        /\ master_exists = prior_master.exists
        /\ master = prior_master.rows

\* the run on an empty directory has ended, and an earlier master file is there
C6_Witness ==
    /\ m_pc = "exited"
    /\ directory = {}
    /\ prior_master.exists
    /\ master = OldMaster

\* C7: with at least one file in the directory and none that loads, the merge
\* run exits with a non-zero status and writes no master file.
C7_NoFrameLoadedFatal ==
    (m_pc = "exited" /\ directory # {} /\ Parseable = {}) =>
        /\ m_exit # << >>
        /\ m_exit[1] # 0
        /\ write_result = "none"
        /\ master_exists = prior_master.exists
        /\ master = prior_master.rows

\* C8: a file that fails to parse does not end the run: with at least one
\* file that loads (and the write of the master file not refused), the run
\* ends with status 0 having written a master whose rows are exactly the rows
\* of the files that load, one warning printed per file that does not.
C8_CorruptShardExcluded ==
    /\ (m_pc = "exited" /\ Parseable # {}) =>
           /\ write_result # "none"
           /\ m_exit = <<0>>
           /\ success_count = Cardinality(Parseable)
           /\ warnings = Cardinality(directory \ Parseable)
    /\ (m_pc = "exited" /\ Parseable # {} /\ write_result = "written") =>
           /\ master_exists
           /\ Len(master) = RowCount(Parseable)
           /\ \A r \in AllRows : Occurrences(master, r) = OccurrencesIn(Parseable, r)

\* a master was written from two shards found next to a file that did not parse
C8_Witness ==
    /\ m_pc = "exited"
    /\ write_result = "written"
    /\ warnings = 1
    /\ success_count = 2
    /\ Len(master) = RowCount(Parseable)
    /\ Len(master) >= 3

\* C11: a merge run whose write of the master file is refused (permission or
\* I/O failure) does not end with exit status 0, and the master file of the
\* earlier run is as it was.
C11_WriteFailureFatal ==
    (m_pc = "exited" /\ write_result = "denied") =>
        /\ m_exit # << >>
        /\ m_exit[1] # 0
        /\ master_exists = prior_master.exists
        /\ master = prior_master.rows

-----------------------------------------------------------------------------
\* Two copies of the fetcher (batch_01.py with its own START_INDEX and
\* END_INDEX each) run side by side and write into the same OUTPUT_FOLDER.
\* Every system call on a shard file is a step of its own, so that the calls
\* of the two processes interleave. The retry branch of the handler (lines
\* 150-153) sleeps and requests again: it touches no file and is no step here.

Batches == {1, 2}

\* the index ranges a batch can be configured with (lines 32-33 of a copy)
Ranges == {r \in [start : 0..RegistrySize, stop : 0..RegistrySize] : r.start <= r.stop}

\* two half-open index ranges with no index in common
DisjointRanges(r1, r2) == r1.stop <= r2.start \/ r2.stop <= r1.start

\* line 76, for batch b
b_df_batch(b) == iloc_slice(b_range[b].start, b_range[b].stop)

\* lines 87-93: the row of the iteration and its file
b_Cur(b) == b_df_batch(b)[b_idx[b]]
b_file_path(b) == file_path(b_Cur(b))

Touch(b) == b_touched' = [b_touched EXCEPT ![b] = @ \cup {b_file_path(b)}]

\* line 87: the loop of batch b is exhausted; line 158
b_LoopDone(b) ==
    /\ b_pc[b] = "loop"
    /\ b_idx[b] > Len(b_df_batch(b))
    /\ b_pc' = [b_pc EXCEPT ![b] = "done"]
    /\ UNCHANGED <<b_range, b_idx, b_exists, b_size, b_touched>>
    /\ UNCHANGED <<fetchVars, mergeVars, decodeVars>>

\* line 96: os.path.exists(file_path)
b_Exists(b) ==
    /\ b_pc[b] = "loop"
    /\ b_idx[b] <= Len(b_df_batch(b))
    /\ Touch(b)
    /\ b_pc' = [b_pc EXCEPT ![b] = IF b_exists[b_file_path(b)] THEN "getsize"
                                                                 ELSE "request"]
    /\ UNCHANGED <<b_range, b_idx, b_exists, b_size>>
    /\ UNCHANGED <<fetchVars, mergeVars, decodeVars>>

\* lines 97-99: os.path.getsize(file_path); it raises FileNotFoundError,
\* outside the try block, when the file is gone since line 96
b_GetSize(b) ==
    /\ b_pc[b] = "getsize"
    /\ Touch(b)
    /\ IF ~b_exists[b_file_path(b)]
       THEN /\ b_pc' = [b_pc EXCEPT ![b] = "crashed"]
            /\ UNCHANGED b_idx
       ELSE IF b_size[b_file_path(b)] > SIZE_THRESHOLD
            THEN /\ b_idx' = [b_idx EXCEPT ![b] = @ + 1]
                 /\ b_pc' = [b_pc EXCEPT ![b] = "loop"]
            ELSE /\ b_pc' = [b_pc EXCEPT ![b] = "remove"]
                 /\ UNCHANGED b_idx
    /\ UNCHANGED <<b_range, b_exists, b_size>>
    /\ UNCHANGED <<fetchVars, mergeVars, decodeVars>>

\* line 101: os.remove(file_path); it raises FileNotFoundError, outside the
\* try block, when the file is gone
b_Remove(b) ==
    /\ b_pc[b] = "remove"
    /\ Touch(b)
    /\ IF b_exists[b_file_path(b)]
       THEN /\ b_exists' = [b_exists EXCEPT ![b_file_path(b)] = FALSE]
            /\ b_size' = [b_size EXCEPT ![b_file_path(b)] = 0]
            /\ b_pc' = [b_pc EXCEPT ![b] = "request"]
       ELSE /\ b_pc' = [b_pc EXCEPT ![b] = "crashed"]
            /\ UNCHANGED <<b_exists, b_size>>
    /\ UNCHANGED <<b_range, b_idx>>
    /\ UNCHANGED <<fetchVars, mergeVars, decodeVars>>

\* lines 119-139: a response arrives and the frame is built
b_FetchOk(b) ==
    /\ b_pc[b] = "request"
    /\ b_pc' = [b_pc EXCEPT ![b] = "write"]
    /\ UNCHANGED <<b_range, b_idx, b_exists, b_size, b_touched>>
    /\ UNCHANGED <<fetchVars, mergeVars, decodeVars>>

\* lines 119, 148-156: the request fails for good; the location is given up
b_FetchError(b) ==
    /\ b_pc[b] = "request"
    /\ b_idx' = [b_idx EXCEPT ![b] = @ + 1]
    /\ b_pc' = [b_pc EXCEPT ![b] = "loop"]
    /\ UNCHANGED <<b_range, b_exists, b_size, b_touched>>
    /\ UNCHANGED <<fetchVars, mergeVars, decodeVars>>

\* line 140: to_csv opens file_path for writing (created or truncated)
b_WriteOpen(b) ==
    /\ b_pc[b] = "write"
    /\ Touch(b)
    /\ b_exists' = [b_exists EXCEPT ![b_file_path(b)] = TRUE]
    /\ b_size' = [b_size EXCEPT ![b_file_path(b)] = 0]
    /\ b_pc' = [b_pc EXCEPT ![b] = "writing"]
    /\ UNCHANGED <<b_range, b_idx>>
    /\ UNCHANGED <<fetchVars, mergeVars, decodeVars>>

\* line 140: to_csv writes on through its open handle
b_WriteChunk(b, s) ==
    /\ b_pc[b] = "writing"
    /\ s > b_size[b_file_path(b)]
    /\ Touch(b)
    /\ b_size' = [b_size EXCEPT ![b_file_path(b)] = s]
    /\ UNCHANGED <<b_range, b_pc, b_idx, b_exists>>
    /\ UNCHANGED <<fetchVars, mergeVars, decodeVars>>

\* lines 140-146: the file is complete and closed; SUCCESS, sleep, break
b_WriteClose(b) ==
    /\ b_pc[b] = "writing"
    /\ b_size[b_file_path(b)] = FullSize
    /\ b_idx' = [b_idx EXCEPT ![b] = @ + 1]
    /\ b_pc' = [b_pc EXCEPT ![b] = "loop"]
    /\ UNCHANGED <<b_range, b_exists, b_size, b_touched>>
    /\ UNCHANGED <<fetchVars, mergeVars, decodeVars>>

\* both processes are past line 84, with disjoint index ranges; the shared
\* directory holds any mix of absent, empty and complete shard files
BatchInit ==
    /\ pc = "idle"
    /\ idx = 1
    /\ exists = [f \in FileNames |-> FALSE]
    /\ size = [f \in FileNames |-> 0]
    /\ cache = {}
    /\ wait_time_on_error = BASE_WAIT
    /\ exit_status = << >>
    /\ outcome = [l \in Locations |-> "none"]
    /\ requested = {}
    /\ netCalled = {}
    /\ seen = [l \in Locations |-> [reached |-> FALSE, exists |-> FALSE, size |-> 0]]
    /\ removed = {}
    /\ lastFailure = "none"
    /\ hits = 0
    /\ slept = 0
    /\ m_pc = "idle"
    /\ directory = {}
    /\ csv_files = << >>
    /\ file_i = 1
    /\ data_frames = << >>
    /\ success_count = 0
    /\ warnings = 0
    /\ master = << >>
    /\ master_exists = FALSE
    /\ prior_master = [exists |-> FALSE, rows |-> << >>]
    /\ write_result = "none"
    /\ m_exit = << >>
    /\ b_range \in {r \in [Batches -> Ranges] : DisjointRanges(r[1], r[2])}
    /\ b_pc = [b \in Batches |-> "loop"]
    /\ b_idx = [b \in Batches |-> 1]
    /\ b_exists \in [FileNames -> BOOLEAN]
    /\ b_size \in {z \in [FileNames -> {0, FullSize}] :
                      \A f \in FileNames : ~b_exists[f] => z[f] = 0}
    /\ b_touched = [b \in Batches |-> {}]
    /\ d_pc = "idle"
    /\ weather_code = << >>
    /\ weather_desc = << >>
    /\ d_outcome = "none"

BatchNext ==
    \/ \E b \in Batches : b_LoopDone(b)
    \/ \E b \in Batches : b_Exists(b)
    \/ \E b \in Batches : b_GetSize(b)
    \/ \E b \in Batches : b_Remove(b)
    \/ \E b \in Batches : b_FetchOk(b)
    \/ \E b \in Batches : b_FetchError(b)
    \/ \E b \in Batches : b_WriteOpen(b)
    \/ \E b \in Batches : \E s \in Sizes : b_WriteChunk(b, s)
    \/ \E b \in Batches : b_WriteClose(b)

BatchSpec == BatchInit /\ [][BatchNext]_vars

\* C12: two batches with disjoint index ranges that run side by side on one
\* output directory never touch (test, delete, write) the same shard file, each
\* touches only files of its own rows, and neither is brought down by a file
\* vanishing under it.
C12_DisjointBatchesDisjointFiles ==
    /\ b_touched[1] \cap b_touched[2] = {}
    /\ \A b \in Batches :
          /\ b_touched[b] \subseteq
                {file_path(b_df_batch(b)[k]) : k \in 1..Len(b_df_batch(b))}
          /\ b_pc[b] # "crashed"

\* both batches are writing their shard files at the same moment
C12_Witness ==
    /\ b_pc[1] = "writing"
    /\ b_pc[2] = "writing"
    /\ b_touched[1] # {}
    /\ b_touched[2] # {}

-----------------------------------------------------------------------------
\* The decoding of one response: lines 130-140 of batch_01.py. The column
\* weather_code is the float32 array of ValuesAsNumpy(); a day the archive has
\* no value for is NaN in it. A number is kept in tenths (950 is 95.0), so
\* that int() has something to cut off.

MaxDays == 3

NaN == [nan |-> TRUE, tenths |-> 0]
Num(t) == [nan |-> FALSE, tenths |-> t]

\* the raw values a response is drawn from
RawCodes == {Num(0), Num(950), Num(9990), Num(45), NaN}

\* lines 42-52
WMO_CODES ==
    (0 :> "Clear sky") @@ (1 :> "Mainly clear") @@ (2 :> "Partly cloudy") @@
    (3 :> "Overcast") @@ (45 :> "Fog") @@ (48 :> "Depositing rime fog") @@
    (51 :> "Drizzle: Light") @@ (53 :> "Drizzle: Moderate") @@
    (55 :> "Drizzle: Dense") @@ (56 :> "Freezing Drizzle: Light") @@
    (57 :> "Freezing Drizzle: Dense") @@ (61 :> "Rain: Slight") @@
    (63 :> "Rain: Moderate") @@ (65 :> "Rain: Heavy") @@
    (66 :> "Freezing Rain: Light") @@ (67 :> "Freezing Rain: Heavy") @@
    (71 :> "Snow fall: Slight") @@ (73 :> "Snow fall: Moderate") @@
    (75 :> "Snow fall: Heavy") @@ (77 :> "Snow grains") @@
    (80 :> "Rain showers: Slight") @@ (81 :> "Rain showers: Moderate") @@
    (82 :> "Rain showers: Violent") @@ (85 :> "Snow showers: Slight") @@
    (86 :> "Snow showers: Heavy") @@ (95 :> "Thunderstorm: Slight or moderate") @@
    (96 :> "Thunderstorm with slight hail") @@ (99 :> "Thunderstorm with heavy hail")

\* int(code) of a float: ValueError for NaN, else the value cut towards zero
int_raises(code) == code.nan
int(code) == IF code.tenths >= 0 THEN code.tenths \div 10
                                 ELSE -((-code.tenths) \div 10)

\* WMO_CODES.get(int(code), 'Unknown'), for a code int() accepts
get_weather_description(code) ==
    IF int(code) \in DOMAIN WMO_CODES THEN WMO_CODES[int(code)] ELSE "Unknown"

\* str(e) of the ValueError of int(): "cannot convert float NaN to integer"
NaNError == [kind |-> "Unexpected", limitText |-> FALSE, has429 |-> FALSE]

\* line 139: apply calls get_weather_description on the next value
ApplyNext ==
    /\ d_pc = "apply"
    /\ Len(weather_desc) < Len(weather_code)
    /\ ~int_raises(weather_code[Len(weather_desc) + 1])
    /\ weather_desc' = Append(weather_desc,
                              get_weather_description(weather_code[Len(weather_desc) + 1]))
    /\ UNCHANGED <<d_pc, weather_code, d_outcome>>
    /\ UNCHANGED <<fetchVars, mergeVars, batchVars>>

\* line 139, then lines 148-156: int() raises inside apply; the handler finds
\* no rate limit in the text, prints "Skipping" and breaks
ApplyRaises ==
    /\ d_pc = "apply"
    /\ Len(weather_desc) < Len(weather_code)
    /\ int_raises(weather_code[Len(weather_desc) + 1])
    /\ ~IsRateLimitText(NaNError)
    /\ d_outcome' = "failed"
    /\ d_pc' = "next"
    /\ UNCHANGED <<weather_code, weather_desc>>
    /\ UNCHANGED <<fetchVars, mergeVars, batchVars>>

\* lines 140-146: the column is complete; to_csv, SUCCESS, break
ApplyDone ==
    /\ d_pc = "apply"
    /\ Len(weather_desc) = Len(weather_code)
    /\ d_outcome' = "succeeded"
    /\ d_pc' = "next"
    /\ UNCHANGED <<weather_code, weather_desc>>
    /\ UNCHANGED <<fetchVars, mergeVars, batchVars>>

\* a response has arrived (line 119 succeeded) with any column of raw codes
DecodeInit ==
    /\ pc = "idle"
    /\ idx = 1
    /\ exists = [f \in FileNames |-> FALSE]
    /\ size = [f \in FileNames |-> 0]
    /\ cache = {}
    /\ wait_time_on_error = BASE_WAIT
    /\ exit_status = << >>
    /\ outcome = [l \in Locations |-> "none"]
    /\ requested = {}
    /\ netCalled = {}
    /\ seen = [l \in Locations |-> [reached |-> FALSE, exists |-> FALSE, size |-> 0]]
    /\ removed = {}
    /\ lastFailure = "none"
    /\ hits = 0
    /\ slept = 0
    /\ m_pc = "idle"
    /\ directory = {}
    /\ csv_files = << >>
    /\ file_i = 1
    /\ data_frames = << >>
    /\ success_count = 0
    /\ warnings = 0
    /\ master = << >>
    /\ master_exists = FALSE
    /\ prior_master = [exists |-> FALSE, rows |-> << >>]
    /\ write_result = "none"
    /\ m_exit = << >>
    /\ b_range = [b \in {1, 2} |-> [start |-> 0, stop |-> 0]]
    /\ b_pc = [b \in {1, 2} |-> "idle"]
    /\ b_idx = [b \in {1, 2} |-> 1]
    /\ b_exists = [f \in FileNames |-> FALSE]
    /\ b_size = [f \in FileNames |-> 0]
    /\ b_touched = [b \in {1, 2} |-> {}]
    /\ d_pc = "apply"
    /\ weather_code \in UNION {[1..n -> RawCodes] : n \in 1..MaxDays}
    /\ weather_desc = << >>
    /\ d_outcome = "none"

DecodeNext ==
    \/ ApplyNext
    \/ ApplyRaises
    \/ ApplyDone

DecodeSpec == DecodeInit /\ [][DecodeNext]_vars

\* the description the table gives for a raw value: that of its code when the
\* value is a code of the table, the "Unknown" marker for every other value
Described(code) ==
    IF ~code.nan /\ code.tenths % 10 = 0 /\ (code.tenths \div 10) \in DOMAIN WMO_CODES
    THEN WMO_CODES[code.tenths \div 10]
    ELSE "Unknown"

\* C13: the decoder is total: every raw weather code of a response gets the
\* table's description (95 a thunderstorm one) or the "Unknown" marker (999),
\* and decoding never makes a fetched location a failed one.
C13_DecoderTotal ==
    /\ d_outcome # "failed"
    /\ \A k \in 1..Len(weather_desc) : weather_desc[k] = Described(weather_code[k])
    /\ d_outcome = "succeeded" => Len(weather_desc) = Len(weather_code)

-----------------------------------------------------------------------------
\* The fetcher as a process that keeps running: no interrupt, the registry is
\* there, and the sleep of the handler (line 152) is a state of its own. The
\* remote service answers RateLimited at most MaxRateLimitHits times in a row
\* for a location; any other failure may come at any time. Once hits has
\* reached MaxRateLimitHits the wait is no longer followed: hits and
\* wait_time_on_error stay as they are, so that a retry loop that never ends
\* is a cycle of the state graph.

\* lines 119, 148-152 and 154-156: the network call fails with e; the handler
\* goes to sleep on a rate-limit text and gives the location up otherwise
FetchErrorSleeps(e) ==
    /\ pc = "request"
    /\ Cur \notin cache
    /\ e.kind = "RateLimited" => hits < MaxRateLimitHits
    /\ requested' = requested \cup {Cur}
    /\ netCalled' = netCalled \cup {Cur}
    /\ lastFailure' = e.kind
    /\ IF IsRateLimitText(e)
       THEN /\ pc' = "sleeping"
            /\ UNCHANGED <<idx, outcome>>
       ELSE /\ outcome' = [outcome EXCEPT ![Cur] = "failed"]
            /\ idx' = idx + 1
            /\ pc' = "loop"
    /\ UNCHANGED <<exists, size, cache, wait_time_on_error, exit_status, seen, removed,
                   hits, slept>>
    /\ UNCHANGED <<mergeVars, batchVars, decodeVars>>

\* lines 152-153, then line 105: the sleep is over, the wait is doubled and
\* the while loop requests again
Wake ==
    /\ pc = "sleeping"
    /\ slept' = wait_time_on_error
    /\ wait_time_on_error' = IF hits < MaxRateLimitHits
                             THEN NextWait(wait_time_on_error)
                             ELSE wait_time_on_error
    /\ hits' = Min(hits + 1, MaxRateLimitHits)
    /\ pc' = "request"
    /\ UNCHANGED <<idx, exists, size, cache, exit_status, outcome, requested, netCalled,
                   seen, removed, lastFailure>>
    /\ UNCHANGED <<mergeVars, batchVars, decodeVars>>

FetchLiveNext ==
    \/ \E cacheKept \in BOOLEAN : StartRun(cacheKept)
    \/ LoopDone
    \/ SkipExisting
    \/ FoundCorrupt
    \/ Remove
    \/ FoundAbsent
    \/ FetchCached
    \/ FetchOk
    \/ \E e \in Errors : FetchErrorSleeps(e)
    \/ Wake
    \/ WriteOpen
    \/ \E s \in Sizes : WriteChunk(s)
    \/ WriteClose
    \/ \E e \in Errors : WriteError(e)

\* the process is never stopped: whenever it can take a step it takes one
FetchLiveSpec == FetchInit /\ [][FetchLiveNext]_vars /\ WF_vars(FetchLiveNext)

\* the run is over with every location of the batch in an outcome
Finished ==
    /\ pc = "done"
    /\ \A k \in 1..Len(df_batch) :
          outcome[df_batch[k]] \in {"succeeded", "skipped", "failed"}

\* C14: a location whose request was answered by a wait is requested again,
\* and, the remote service answering RateLimited only finitely often in a row,
\* a run that has started ends with every location of the batch succeeded,
\* skipped or failed.
C14_RateLimitedNeverAbandoned ==
    /\ (pc = "sleeping") ~> (pc = "request")
    /\ Running ~> Finished

====
